---- MODULE Spec2Model ----
(***************************************************************************)
(* Model of src/app.py: a chat session in which a triage agent hands the   *)
(* conversation to specialist agents, the run is streamed into the UI, and *)
(* remote FAQ threads are deleted and replaced after every message.        *)
(*                                                                         *)
(* The hosted model (what the agent decides to do next), the remote agent  *)
(* service (which calls succeed) and the user (what is typed) are the      *)
(* environment: their choices are nondeterministic.  Calls of the chat UI  *)
(* and of the session store are taken not to raise.                        *)
(***************************************************************************)
EXTENDS Integers, Sequences, FiniteSets, TLC

(* ---------- bounds of the model ---------- *)
\* MaxWork: user messages plus tool calls and handoffs explored in one session;
\* MaxDeltas: text deltas explored in one run
MaxWork == 4
MaxDeltas == 2

(* ---------- values ---------- *)
None == <<>>
Agents == {"Triage", "FAQ", "AccountManagement", "Live"}
Specialists == {"FAQ", "AccountManagement", "Live"}
FAQ_AGENT_ID == "faq-agent-id"
Questions == {"q1", "q2"}
\* the text of a response arrives cut into pieces; the i-th piece is Chunk(i)
Chunk(i) == "d" \o ToString(i)
\* random.randint(100, 999): the model draws the ends of the range
IdLo == 100
IdHi == 999
RandomIds == {IdLo, IdHi}
\* "asking the same question more than two times" (instructions of the triage agent)
RepeatLimit == 3
Apology == <<"I'm sorry, I encountered an error while processing your request. Please try again.">>
ImageElement == [mime |-> <<"image", "png">>, path |-> "p1"]
OtherElement == [mime |-> <<"application", "pdf">>, path |-> "p2"]
\* the messages the user may send: a text and its attached elements
Inputs == {[content |-> "q1", elements |-> <<>>],
           [content |-> "q2", elements |-> <<OtherElement, ImageElement>>]}

VARIABLES
  handoffs,        \* agent -> its handoff list (module level, lines 165-254)
  tools,           \* agent -> its tool list
  loaded,          \* number of module-level back-edge appends executed (252-254)
  chat,            \* on_chat_start: "none", "started", "failed"
  user_session,    \* cl.user_session: the keys set so far and their values
  heap,            \* the MultiAgentContext objects allocated; a context is a reference into it
  threads,         \* remote thread service: ids created so far and ids still existing
  handler,         \* on_message: "idle" or "running"
  active,          \* number of main() coroutines started and not finished
  msgs,            \* number of messages received so far
  turns,           \* number of tool calls and handoffs the runs have made so far
  asked,           \* question -> number of times the user has asked it
  pc,              \* position of main
  current_agent,   \* main's local current_agent (line 258)
  context,         \* main's local context reference (line 260)
  msg,             \* the "thinking..." placeholder message
  msg_final,       \* the final message
  is_thinking,     \* main's local is_thinking
  last_agent,      \* main's local last_agent
  result,          \* the streamed run: its agent, input, new items, context and turn count
  deltas,          \* the text deltas the run has produced for this message, in order
  delete_threads,  \* main's local delete_threads (line 307)
  idx,             \* position of the deletion loop (line 308)
  attempts,        \* thread ids whose deletion was attempted for this message
  outcome,         \* how the try block of main ended: "none", "ok", "failed"
  tool_ret,        \* the last tool call of this message and what it did
  main_raised,     \* main ended by an exception (create_thread failed at line 320)
  lastGood         \* last agent of the most recent run that completed without error

vars == <<handoffs, tools, loaded, chat, user_session, heap, threads, handler, active,
          msgs, turns, asked, pc, current_agent, context, msg, msg_final, is_thinking,
          last_agent, result, deltas, delete_threads, idx, attempts, outcome,
          tool_ret, main_raised, lastGood>>

moduleVars == <<handoffs, tools, loaded>>
mainLocals == <<current_agent, context, msg, msg_final, is_thinking, last_agent,
                result, deltas, delete_threads, idx, attempts, outcome, tool_ret,
                main_raised>>

(* ---------- helpers ---------- *)
Range(s) == {s[i] : i \in 1..Len(s)}

\* Agent.name of each agent (lines 166, 183, 201, 229)
Name(a) ==
  CASE a = "Triage" -> "Triage Agent"
    [] a = "FAQ" -> "FAQ Agent"
    [] a = "AccountManagement" -> "Account Management Agent"
    [] a = "Live" -> "Live Agent"

\* fault variant: a field of a new context already holds a value
MultiAgentContextPreset ==
  [user_name |-> <<"guest">>, image_path |-> None, birth_date |-> None, user_id |-> None]

\* class MultiAgentContext: every field defaults to None
MultiAgentContext ==
  [user_name |-> None, image_path |-> None, birth_date |-> None, user_id |-> None]

\* a handoff-list entry: the target agent and whether an on_handoff hook is attached
Edge(a, hook) == [agent |-> a, on_handoff |-> hook]

\* fault variant: the AccountManagement entry is listed without its on_handoff hook
TriageHandoffsNoHook ==
  <<Edge("AccountManagement", FALSE), Edge("FAQ", FALSE), Edge("Live", FALSE)>>

\* handoffs=[handoff(agent=account_management_agent, on_handoff=...), faq_agent, live_agent]
TriageHandoffs ==
  <<Edge("AccountManagement", TRUE), Edge("FAQ", FALSE), Edge("Live", FALSE)>>

\* fault variant: faq_agent is constructed with a handoff to live_agent
ConstructedHandoffsFaqToLive ==
  [a \in Agents |-> CASE a = "Triage" -> TriageHandoffs
                      [] a = "FAQ" -> <<Edge("Live", FALSE)>>
                      [] OTHER -> <<>>]

\* the agents as constructed at lines 165-250, before the back-edges are appended
ConstructedHandoffs == [a \in Agents |-> IF a = "Triage" THEN TriageHandoffs ELSE <<>>]

ConstructedTools ==
  [a \in Agents |-> CASE a = "FAQ" -> <<"faq_lookup_tool">>
                      [] a = "AccountManagement" -> <<"update_user_name">>
                      [] OTHER -> <<>>]

\* order of the three module-level appends, and the entry each of them appends
AppendOrder == <<"FAQ", "AccountManagement", "Live">>
\* fault variant: the appended entry leads to live_agent
BackEdgeToLive == Edge("Live", FALSE)
BackEdge == Edge("Triage", FALSE)

\* cl.user_session.get(key): None (here the type's empty value) when the key is unset
EmptySession ==
  [keys |-> {}, current_agent |-> "", input_items |-> <<>>, context |-> 0,
   new_threads |-> <<>>, delete_threads |-> <<>>]

SessionSet(s, key, val) ==
  CASE key = "current_agent" -> [s EXCEPT !.keys = @ \cup {key}, !.current_agent = val]
    [] key = "input_items" -> [s EXCEPT !.keys = @ \cup {key}, !.input_items = val]
    [] key = "context" -> [s EXCEPT !.keys = @ \cup {key}, !.context = val]
    [] key = "new_threads" -> [s EXCEPT !.keys = @ \cup {key}, !.new_threads = val]
    [] key = "delete_threads" -> [s EXCEPT !.keys = @ \cup {key}, !.delete_threads = val]
    [] key = "start_time" -> [s EXCEPT !.keys = @ \cup {key}]

\* a dict with the single key FAQ_AGENT_ID is the one-element sequence of its value,
\* the empty dict is the empty sequence
ThreadOf(new_threads) == IF Len(new_threads) = 0 THEN 0 ELSE new_threads[1]

\* a cl.Message: its content, whether the UI shows it, how often it was removed,
\* and whether update() was called on it
NoMsg == [content |-> <<>>, sent |-> FALSE, removes |-> 0, updated |-> FALSE]
NoResult == [starting_agent |-> "", agent |-> "", input |-> <<>>, new_items |-> <<>>,
             context |-> 0]
NoTool == [tool |-> "none", status |-> "none", value |-> <<>>, raised |-> FALSE]

Init ==
  /\ handoffs = ConstructedHandoffs
  /\ tools = ConstructedTools
  /\ loaded = 0
  /\ chat = "none"
  /\ user_session = EmptySession
  /\ heap = <<>>
  /\ threads = [created |-> 0, alive |-> {}]
  /\ handler = "idle"
  /\ active = 0
  /\ msgs = 0
  /\ turns = 0
  /\ asked = [q \in Questions |-> 0]
  /\ pc = "none"
  /\ current_agent = ""
  /\ context = 0
  /\ msg = NoMsg
  /\ msg_final = NoMsg
  /\ is_thinking = FALSE
  /\ last_agent = ""
  /\ result = NoResult
  /\ deltas = <<>>
  /\ delete_threads = <<>>
  /\ idx = 0
  /\ attempts = <<>>
  /\ outcome = "none"
  /\ tool_ret = NoTool
  /\ lastGood = ""
  /\ main_raised = FALSE

(* ---------- module level: lines 252-254 ---------- *)
\* faq_agent.handoffs.append(triage_agent), then the same for the other two
AppendBackEdge ==
  /\ loaded < Len(AppendOrder)
  /\ handoffs' = [handoffs EXCEPT ![AppendOrder[loaded + 1]] = Append(@, BackEdge)]
  /\ loaded' = loaded + 1
  /\ UNCHANGED <<tools, chat, user_session, heap, threads, handler, active, msgs, turns,
                 asked, pc, lastGood>>
  /\ UNCHANGED mainLocals

ModuleLoaded == loaded = Len(AppendOrder)

(* ---------- on_chat_start: lines 329-343 ---------- *)
\* project_client.agents.create_thread(): a new id, or an exception
on_chat_start ==
  /\ ModuleLoaded
  /\ chat = "none"
  /\ heap' = Append(heap, MultiAgentContext)
  /\ LET s1 == SessionSet(user_session, "current_agent", "Triage")
         s2 == SessionSet(s1, "input_items", <<>>)
         s3 == SessionSet(s2, "context", Len(heap) + 1)
     IN \E created \in BOOLEAN :
          IF created
            THEN /\ threads' = [created |-> threads.created + 1,
                                alive |-> threads.alive \cup {threads.created + 1}]
                 /\ user_session' = SessionSet(s3, "new_threads", <<threads.created + 1>>)
                 /\ chat' = "started"
            ELSE /\ threads' = threads
                 /\ user_session' = s3
                 /\ chat' = "failed"
  /\ UNCHANGED <<handler, active, msgs, turns, asked, pc, lastGood>>
  /\ UNCHANGED moduleVars
  /\ UNCHANGED mainLocals

(* ---------- on_message: lines 346-357, and the start of main: 258-274 ---------- *)
\* element.mime.startswith("image/")
IsImage(element) == element.mime[1] = "image"

\* user_input = message.content, plus one "[uploaded image] path" per image element
RECURSIVE UserInput(_, _)
UserInput(content, elements) ==
  IF elements = <<>> THEN <<content>>
  ELSE LET rest == UserInput(content, SubSeq(elements, 1, Len(elements) - 1))
           last == elements[Len(elements)]
       IN IF IsImage(last) THEN rest \o <<"[uploaded image]", last.path>> ELSE rest

UserItem(user_input) == [role |-> "user", content |-> user_input]

\* the placeholder cl.Message("thinking...").send() and the unsent cl.Message("")
ThinkingMsg == [content |-> <<"thinking...">>, sent |-> TRUE, removes |-> 0, updated |-> FALSE]
EmptyFinalMsg == [content |-> <<>>, sent |-> FALSE, removes |-> 0, updated |-> FALSE]

\* Runner.run_streamed(current_agent, input_items, context=context)
run_streamed(agent, input_items, ctx) ==
  [starting_agent |-> agent, agent |-> agent, input |-> input_items, new_items |-> <<>>,
   context |-> ctx]

\* on_message sets start_time, builds user_input and calls asyncio.run(main(user_input));
\* main reads the session, shows the placeholder, empties delete_threads, appends the
\* user item to the session's list (the local input_items is that same list) and
\* creates the run
on_message(content, elements) ==
  /\ chat \in {"started", "failed"}
  /\ handler = "idle"
  /\ msgs + turns < MaxWork
  /\ handler' = "running"
  /\ msgs' = msgs + 1
  /\ asked' = [asked EXCEPT ![content] = @ + 1]
  /\ active' = active + 1
  /\ LET user_input == UserInput(content, elements)
         s1 == SessionSet(user_session, "start_time", 0)
         s2 == SessionSet(s1, "delete_threads", <<>>)
         items == Append(user_session.input_items, UserItem(user_input))
     IN /\ user_session' = [s2 EXCEPT !.input_items = items]
        /\ current_agent' = user_session.current_agent
        /\ context' = user_session.context
        /\ result' = run_streamed(user_session.current_agent, items, user_session.context)
  /\ msg' = ThinkingMsg
  /\ msg_final' = EmptyFinalMsg
  /\ is_thinking' = TRUE
  /\ last_agent' = ""
  /\ deltas' = <<>>
  /\ delete_threads' = <<>>
  /\ idx' = 0
  /\ attempts' = <<>>
  /\ outcome' = "none"
  /\ tool_ret' = NoTool
  /\ main_raised' = FALSE
  /\ pc' = "run"
  /\ UNCHANGED <<chat, heap, threads, turns, lastGood>>
  /\ UNCHANGED moduleVars

(* ---------- the streaming loop of main: lines 278-293 ---------- *)
AgentUpdated(a) ==
  [type |-> "agent_updated_stream_event", new_agent |-> a, is_delta |-> FALSE, delta |-> ""]
TextDelta(d) ==
  [type |-> "raw_response_event", new_agent |-> "", is_delta |-> TRUE, delta |-> d]
RawOther ==
  [type |-> "raw_response_event", new_agent |-> "", is_delta |-> FALSE, delta |-> ""]
RunItem ==
  [type |-> "run_item_stream_event", new_agent |-> "", is_delta |-> FALSE, delta |-> ""]

\* f"[{last_agent}] thinking..." and f"[{last_agent}] "
ThinkingText(name) == <<"[", name, "] thinking...">>
Prefix(name) == <<"[", name, "] ">>

\* fault variant: stream_token sits in an else branch, so the first delta is not appended
StreamEventTokenInElse(e, ui) ==
  IF e.type = "agent_updated_stream_event"
    THEN IF ui.is_thinking
           THEN [ui EXCEPT !.last_agent = Name(e.new_agent),
                           !.msg.content = ThinkingText(Name(e.new_agent)),
                           !.msg.sent = TRUE]
           ELSE ui
    ELSE IF e.type = "raw_response_event" /\ e.is_delta
      THEN IF ui.is_thinking
             THEN [ui EXCEPT !.is_thinking = FALSE,
                             !.msg.sent = FALSE,
                             !.msg.removes = @ + 1,
                             !.msg_final.content = Prefix(ui.last_agent),
                             !.msg_final.sent = TRUE]
             ELSE [ui EXCEPT !.msg_final.content = Append(@, e.delta)]
      ELSE ui

\* fault variant: an agent update is shown whether or not text has begun to arrive
StreamEventUpdateUnguarded(e, ui) ==
  IF e.type = "agent_updated_stream_event"
    THEN [ui EXCEPT !.last_agent = Name(e.new_agent),
                    !.msg.content = ThinkingText(Name(e.new_agent)),
                    !.msg.sent = TRUE]
    ELSE IF e.type = "raw_response_event" /\ e.is_delta
      THEN LET u1 == IF ui.is_thinking
                       THEN [ui EXCEPT !.is_thinking = FALSE,
                                       !.msg.sent = FALSE,
                                       !.msg.removes = @ + 1,
                                       !.msg_final.content = Prefix(ui.last_agent),
                                       !.msg_final.sent = TRUE]
                       ELSE ui
           IN [u1 EXCEPT !.msg_final.content = Append(@, e.delta)]
      ELSE ui

\* the body of the loop over result.stream_events(), on main's UI state
StreamEvent(e, ui) ==
  IF e.type = "agent_updated_stream_event"
    THEN IF ui.is_thinking
           THEN [ui EXCEPT !.last_agent = Name(e.new_agent),
                           !.msg.content = ThinkingText(Name(e.new_agent)),
                           !.msg.sent = TRUE]
           ELSE ui
    ELSE IF e.type = "raw_response_event" /\ e.is_delta
      THEN LET u1 == IF ui.is_thinking
                       THEN [ui EXCEPT !.is_thinking = FALSE,
                                       !.msg.sent = FALSE,
                                       !.msg.removes = @ + 1,
                                       !.msg_final.content = Prefix(ui.last_agent),
                                       !.msg_final.sent = TRUE]
                       ELSE ui
           IN [u1 EXCEPT !.msg_final.content = Append(@, e.delta)]
      ELSE ui

UI == [msg |-> msg, msg_final |-> msg_final, is_thinking |-> is_thinking,
       last_agent |-> last_agent]

Deliver(e) ==
  LET u == StreamEvent(e, UI)
  IN /\ msg' = u.msg
     /\ msg_final' = u.msg_final
     /\ is_thinking' = u.is_thinking
     /\ last_agent' = u.last_agent

sessionVars == <<chat, handler, active, msgs, asked, lastGood>>
tailLocals == <<current_agent, context, delete_threads, idx, attempts, outcome, main_raised>>

\* the run starts: the runner announces the starting agent
RunBegin ==
  /\ pc = "run"
  /\ pc' = "stream"
  /\ Deliver(AgentUpdated(result.agent))
  /\ UNCHANGED <<user_session, heap, threads, result, deltas, tool_ret>>
  /\ UNCHANGED <<sessionVars, tailLocals, moduleVars>>
  /\ UNCHANGED turns

\* the model streams the next piece of text
TextDeltaEvent ==
  /\ pc = "stream"
  /\ Len(deltas) < MaxDeltas
  /\ deltas' = Append(deltas, Chunk(Len(deltas) + 1))
  /\ Deliver(TextDelta(Chunk(Len(deltas) + 1)))
  /\ UNCHANGED <<pc, user_session, heap, threads, result, tool_ret>>
  /\ UNCHANGED <<sessionVars, tailLocals, moduleVars>>
  /\ UNCHANGED turns

\* any other raw response event or run item event
OtherEvent(e) ==
  /\ pc = "stream"
  /\ Deliver(e)
  /\ UNCHANGED <<pc, user_session, heap, threads, result, deltas, tool_ret>>
  /\ UNCHANGED <<sessionVars, tailLocals, moduleVars>>
  /\ UNCHANGED turns

(* ---------- handoffs: lines 158-160 and 241-254 ---------- *)
\* user_id = f"ID-{random.randint(100, 999)}"; context.context.user_id = user_id
on_account_management_handoff(ctx, n) == [ctx EXCEPT !.user_id = <<"ID-", n>>]

\* fault variant: the hook runs on every handoff
OnHandoffEveryEdge(edge, ctx, n) == on_account_management_handoff(ctx, n)

\* what taking a handoff-list entry does to the context: its on_handoff hook, if any
OnHandoff(edge, ctx, n) ==
  IF edge.on_handoff THEN on_account_management_handoff(ctx, n) ELSE ctx

HandoffItem(from, to) == [role |-> "assistant", content |-> <<"transfer", Name(from), Name(to)>>]
ToolItem(tool, output) == [role |-> "tool", content |-> <<tool>> \o output]
MessageItem(a) == [role |-> "assistant", content |-> <<"message", Name(a)>>]

\* the model of the running agent picks one entry of that agent's handoff list
Handoff(edge, n) ==
  /\ pc = "stream"
  /\ msgs + turns < MaxWork
  /\ edge \in Range(handoffs[result.agent])
  /\ heap' = [heap EXCEPT ![result.context] = OnHandoff(edge, @, n)]
  /\ result' = [result EXCEPT !.agent = edge.agent,
                                                            !.new_items = Append(@, HandoffItem(result.agent, edge.agent))]
  /\ Deliver(AgentUpdated(edge.agent))
  /\ UNCHANGED <<pc, user_session, threads, deltas, tool_ret>>
  /\ UNCHANGED <<sessionVars, tailLocals, moduleVars>>
  /\ turns' = turns + 1

(* ---------- faq_lookup_tool: lines 69-129 ---------- *)
FaqRemote == {"ok", "create_message_failed", "run_failed", "stream_error", "no_message"}

\* fault variant: the thread is scheduled for deletion before the calls that may fail
faq_lookup_tool_SchedulesFirst(s, alive, remote) ==
  LET thread_id == ThreadOf(s.new_threads)
      scheduled == SessionSet(s, "delete_threads", Append(s.delete_threads, thread_id))
      failed == \/ "new_threads" \notin s.keys
                \/ thread_id = 0
                \/ thread_id \notin alive
                \/ remote # "ok"
  IN IF failed
       THEN [value |-> Apology, raised |-> FALSE, status |-> "error", session |-> scheduled]
       ELSE [value |-> <<"answer">>, raised |-> FALSE, status |-> "ok", session |-> scheduled]

\* `remote` is what the remote agent service does with this call.  The result is the
\* returned string, whether an exception left the function, and the session afterwards.
faq_lookup_tool(s, alive, remote) ==
  IF "start_time" \notin s.keys
    THEN [value |-> None, raised |-> TRUE, status |-> "raised", session |-> s]
    ELSE LET thread_id == ThreadOf(s.new_threads)
             failed == \/ "new_threads" \notin s.keys
                       \/ thread_id = 0
                       \/ thread_id \notin alive
                       \/ remote # "ok"
         IN IF failed
              THEN [value |-> Apology, raised |-> FALSE, status |-> "error", session |-> s]
              ELSE [value |-> <<"answer">>, raised |-> FALSE, status |-> "ok",
                    session |-> SessionSet(s, "delete_threads",
                                           Append(s.delete_threads, thread_id))]

FaqLookup(remote) ==
  /\ pc = "stream"
  /\ msgs + turns < MaxWork
  /\ "faq_lookup_tool" \in Range(tools[result.agent])
  /\ LET r == faq_lookup_tool(user_session, threads.alive, remote)
     IN /\ user_session' = r.session
        /\ tool_ret' = [tool |-> "faq_lookup_tool", status |-> r.status,
                        value |-> r.value, raised |-> r.raised]
        /\ result' = [result EXCEPT                                     !.new_items = Append(@, ToolItem("faq_lookup_tool", r.value))]
  /\ Deliver(RunItem)
  /\ UNCHANGED <<pc, heap, threads, deltas>>
  /\ UNCHANGED <<sessionVars, tailLocals, moduleVars>>
  /\ turns' = turns + 1

(* ---------- update_user_name: lines 132-152 ---------- *)
UserNames == {"alice"}
ImagePaths == {"p1"}
BirthDates == {"2000-01-01"}

\* the three assignments, then the assertion on user_id
update_user_name(ctx, user_name, image_path, birth_date) ==
  LET c == [ctx EXCEPT !.user_name = <<user_name>>,
                       !.image_path = <<image_path>>,
                       !.birth_date = <<birth_date>>]
  IN [context |-> c,
      raised |-> (c.user_id = None),
      value |-> IF c.user_id = None THEN None ELSE <<"Updated user name to", user_name>>]

UpdateUserName(user_name, image_path, birth_date) ==
  /\ pc = "stream"
  /\ msgs + turns < MaxWork
  /\ "update_user_name" \in Range(tools[result.agent])
  /\ LET r == update_user_name(heap[result.context], user_name, image_path, birth_date)
     IN /\ heap' = [heap EXCEPT ![result.context] = r.context]
        /\ tool_ret' = [tool |-> "update_user_name",
                        status |-> IF r.raised THEN "raised" ELSE "ok",
                        value |-> r.value, raised |-> r.raised]
        /\ result' = [result EXCEPT                                     !.new_items = Append(@, ToolItem("update_user_name", r.value))]
  /\ Deliver(RunItem)
  /\ UNCHANGED <<pc, user_session, threads, deltas>>
  /\ UNCHANGED <<sessionVars, tailLocals, moduleVars>>
  /\ turns' = turns + 1

(* ---------- the end of the try block: lines 295-301 ---------- *)
\* result.to_input_list(): the input the run was given, then the items it produced
to_input_list(r) == r.input \o r.new_items

\* lines 296-297
StoreResult(s, r) ==
  SessionSet(SessionSet(s, "current_agent", r.agent), "input_items", to_input_list(r))

\* fault variant: the except branch leaves the final message as it is
ExceptBranchKeepsText(final) == final

\* the except branch, line 301
ExceptBranch(final) == [final EXCEPT !.content = Apology]

\* fault variant: the session owner is stored although the run raised
ExceptSessionStoresAgent(s, r) == SessionSet(s, "current_agent", r.agent)

\* what the except branch does to the session: nothing
ExceptSession(s, r) == s

\* the stream ends with the running agent's final output
RunComplete ==
  /\ pc = "stream"
  /\ LET r == [result EXCEPT !.new_items = Append(@, MessageItem(result.agent))]
     IN /\ result' = r
        /\ user_session' = StoreResult(user_session, r)
        /\ lastGood' = r.agent
  /\ outcome' = "ok"
  /\ pc' = "update"
  /\ UNCHANGED <<chat, handler, active, msgs, turns, asked, heap, threads, deltas, tool_ret>>
  /\ UNCHANGED <<current_agent, context, delete_threads, idx, attempts, main_raised>>
  /\ UNCHANGED <<msg, msg_final, is_thinking, last_agent>>
  /\ UNCHANGED moduleVars

\* the run raises: when it is created, while it streams, or at its end
RunFail ==
  /\ pc \in {"run", "stream"}
  /\ msg_final' = ExceptBranch(msg_final)
  /\ user_session' = ExceptSession(user_session, result)
  /\ outcome' = "failed"
  /\ pc' = "update"
  /\ UNCHANGED <<heap, threads, result, deltas, tool_ret>>
  /\ UNCHANGED <<current_agent, context, delete_threads, idx, attempts, main_raised>>
  /\ UNCHANGED <<msg, is_thinking, last_agent>>
  /\ UNCHANGED <<sessionVars, moduleVars>>
  /\ UNCHANGED turns

(* ---------- after the try block: lines 303-325 ---------- *)
\* await msg_final.update(); delete_threads = cl.user_session.get("delete_threads") or []
UpdateFinal ==
  /\ pc = "update"
  /\ msg_final' = [msg_final EXCEPT !.updated = TRUE]
  /\ delete_threads' = user_session.delete_threads
  /\ idx' = 1
  /\ pc' = "delete"
  /\ UNCHANGED <<user_session, heap, threads, result, deltas, tool_ret>>
  /\ UNCHANGED <<current_agent, context, attempts, outcome, main_raised>>
  /\ UNCHANGED <<msg, is_thinking, last_agent>>
  /\ UNCHANGED <<sessionVars, moduleVars>>
  /\ UNCHANGED turns

\* fault variant: one try block around the whole loop, so that the first deletion
\* that raises ends the loop
DeleteThreadStopsAtFailure(deleted) ==
  /\ pc = "delete"
  /\ idx <= Len(delete_threads)
  /\ deleted => delete_threads[idx] \in threads.alive
  /\ attempts' = Append(attempts, delete_threads[idx])
  /\ threads' = IF deleted
                  THEN [threads EXCEPT !.alive = @ \ {delete_threads[idx]}]
                  ELSE threads
  /\ idx' = IF deleted THEN idx + 1 ELSE Len(delete_threads) + 1
  /\ UNCHANGED <<pc, user_session, heap, result, deltas, tool_ret>>
  /\ UNCHANGED <<current_agent, context, delete_threads, outcome, main_raised>>
  /\ UNCHANGED <<msg, msg_final, is_thinking, last_agent>>
  /\ UNCHANGED <<sessionVars, moduleVars>>
  /\ UNCHANGED turns

\* one iteration of the loop at line 308; a deletion that raises is caught and printed
DeleteThread(deleted) ==
  /\ pc = "delete"
  /\ idx <= Len(delete_threads)
  /\ deleted => delete_threads[idx] \in threads.alive
  /\ attempts' = Append(attempts, delete_threads[idx])
  /\ threads' = IF deleted
                  THEN [threads EXCEPT !.alive = @ \ {delete_threads[idx]}]
                  ELSE threads
  /\ idx' = idx + 1
  /\ UNCHANGED <<pc, user_session, heap, result, deltas, tool_ret>>
  /\ UNCHANGED <<current_agent, context, delete_threads, outcome, main_raised>>
  /\ UNCHANGED <<msg, msg_final, is_thinking, last_agent>>
  /\ UNCHANGED <<sessionVars, moduleVars>>
  /\ UNCHANGED turns

\* new_threads = cl.user_session.get("new_threads") or {}
NewThreads(s) == IF "new_threads" \in s.keys THEN s.new_threads ELSE <<>>

\* lines 316-325: the registered thread is replaced when it is in delete_threads;
\* create_thread may raise, and then main ends without reaching line 325
ReplaceThreads(created) ==
  /\ pc = "delete"
  /\ idx > Len(delete_threads)
  /\ LET new_threads == NewThreads(user_session)
         replace == Len(new_threads) > 0 /\ new_threads[1] \in Range(delete_threads)
     IN IF replace
          THEN IF created
                 THEN /\ threads' = [created |-> threads.created + 1,
                                     alive |-> threads.alive \cup {threads.created + 1}]
                      /\ user_session' =
                           SessionSet(user_session, "new_threads", <<threads.created + 1>>)
                      /\ main_raised' = FALSE
                 ELSE /\ threads' = threads
                      /\ user_session' = user_session
                      /\ main_raised' = TRUE
          ELSE /\ created
               /\ threads' = threads
               /\ user_session' = SessionSet(user_session, "new_threads", new_threads)
               /\ main_raised' = FALSE
  /\ pc' = "done"
  /\ UNCHANGED <<heap, result, deltas, tool_ret>>
  /\ UNCHANGED <<current_agent, context, delete_threads, idx, attempts, outcome>>
  /\ UNCHANGED <<msg, msg_final, is_thinking, last_agent>>
  /\ UNCHANGED <<sessionVars, moduleVars>>
  /\ UNCHANGED turns

\* main is over and its frame is discarded
MainReturn ==
  /\ pc = "done"
  /\ pc' = "none"
  /\ active' = active - 1
  /\ current_agent' = ""
  /\ context' = 0
  /\ msg' = NoMsg
  /\ msg_final' = NoMsg
  /\ is_thinking' = FALSE
  /\ last_agent' = ""
  /\ result' = NoResult
  /\ deltas' = <<>>
  /\ delete_threads' = <<>>
  /\ idx' = 0
  /\ attempts' = <<>>
  /\ outcome' = "none"
  /\ tool_ret' = NoTool
  /\ main_raised' = FALSE
  /\ UNCHANGED <<chat, handler, msgs, turns, asked, lastGood, user_session, heap, threads>>
  /\ UNCHANGED moduleVars

\* fault variant: main is scheduled and on_message returns at once
AsyncioRunNotAwaited == TRUE

\* asyncio.run(main(user_input)) returns, or raises what main raised, once main is over
AsyncioRunOver == active = 0

OnMessageReturn ==
  /\ handler = "running"
  /\ AsyncioRunOver
  /\ handler' = "idle"
  /\ UNCHANGED <<chat, active, msgs, turns, asked, lastGood, pc, user_session, heap, threads>>
  /\ UNCHANGED <<mainLocals, moduleVars>>

Next ==
  \/ AppendBackEdge
  \/ on_chat_start
  \/ \E m \in Inputs : on_message(m.content, m.elements)
  \/ RunBegin
  \/ TextDeltaEvent
  \/ \E e \in {RawOther, RunItem} : OtherEvent(e)
  \/ \E a \in Agents, hook \in BOOLEAN, n \in RandomIds : Handoff(Edge(a, hook), n)
  \/ \E remote \in FaqRemote : FaqLookup(remote)
  \/ \E un \in UserNames, ip \in ImagePaths, bd \in BirthDates : UpdateUserName(un, ip, bd)
  \/ RunComplete
  \/ RunFail
  \/ UpdateFinal
  \/ \E deleted \in BOOLEAN : DeleteThread(deleted)
  \/ \E created \in BOOLEAN : ReplaceThreads(created)
  \/ MainReturn
  \/ OnMessageReturn

Spec == Init /\ [][Next]_vars

\* every step but the arrival of a user message: the event loop runs the handlers
\* and main to their end, and a run ends, by completing or by raising
SystemStep ==
  \/ AppendBackEdge
  \/ on_chat_start
  \/ RunBegin
  \/ TextDeltaEvent
  \/ \E a \in Agents, hook \in BOOLEAN, n \in RandomIds : Handoff(Edge(a, hook), n)
  \/ \E remote \in FaqRemote : FaqLookup(remote)
  \/ \E un \in UserNames, ip \in ImagePaths, bd \in BirthDates : UpdateUserName(un, ip, bd)
  \/ RunComplete
  \/ RunFail
  \/ UpdateFinal
  \/ \E deleted \in BOOLEAN : DeleteThread(deleted)
  \/ \E created \in BOOLEAN : ReplaceThreads(created)
  \/ MainReturn
  \/ OnMessageReturn

FairSpec == Spec /\ WF_vars(SystemStep)

(* ---------- the properties ---------- *)
Running == pc \in {"run", "stream"}
Started == chat # "none"
LastItem(items) == items[Len(items)]

\* this step is a handoff of the run: the run appends a transfer item
IsHandoffStep ==
  /\ pc = "stream"
  /\ Len(result'.new_items) = Len(result.new_items) + 1
  /\ LastItem(result'.new_items).content[1] = "transfer"

\* the edges the design declares: Triage to a specialist, a specialist to Triage
DeclaredEdge(a, b) ==
  \/ a = "Triage" /\ b \in Specialists
  \/ a \in Specialists /\ b = "Triage"

\* C1: the owner is always one of the four agents; within a run ownership moves only
\* along a declared edge (Triage to a specialist, or a specialist to Triage); the
\* owner stored in the session changes only to the last agent of a run, and when it
\* passes from one specialist to another the run went through Triage; once the three
\* back-edges are appended the handoff lists never change.
C1_OwnershipFollowsEdges ==
  /\ [](Started => user_session.current_agent \in Agents)
  /\ [](Running => result.agent \in Agents)
  /\ [][Running /\ result'.agent # result.agent
          => IsHandoffStep /\ DeclaredEdge(result.agent, result'.agent)]_vars
  /\ [][Started /\ user_session'.current_agent # user_session.current_agent
          => /\ user_session'.current_agent = result'.agent
             /\ (/\ user_session.current_agent \in Specialists
                 /\ user_session'.current_agent \in Specialists)
                  => \E i \in 1..Len(result'.new_items) :
                       result'.new_items[i] =
                         HandoffItem(user_session.current_agent, "Triage")]_vars
  /\ [][ModuleLoaded => handoffs' = handoffs]_vars

\* a run that started in a specialist has handed the conversation back to Triage
C1_Witness ==
  /\ pc = "stream"
  /\ result.starting_agent \in Specialists
  /\ result.agent = "Triage"

\* C2: the handoff from Triage to AccountManagement sets user_id to "ID-n" with n in
\* 100..999 and leaves the other context fields alone; every other handoff leaves the
\* context unchanged; no handoff touches the session or the remote threads.
C2_HandoffSideEffect ==
  [][IsHandoffStep =>
       LET old == heap[result.context]
           new == heap'[result.context]
       IN /\ user_session' = user_session
          /\ threads' = threads
          /\ IF result.agent = "Triage" /\ result'.agent = "AccountManagement"
               THEN /\ \E n \in IdLo..IdHi : new.user_id = <<"ID-", n>>
                    /\ new.user_name = old.user_name
                    /\ new.image_path = old.image_path
                    /\ new.birth_date = old.birth_date
               ELSE heap' = heap]_vars

\* the hook has stamped an id on the way into AccountManagement, and the handoff
\* back to Triage, which has no hook, has followed and left it in place
C2_Witness ==
  /\ pc = "stream"
  /\ Len(result.new_items) = 2
  /\ result.new_items[1] = HandoffItem("Triage", "AccountManagement")
  /\ result.new_items[2] = HandoffItem("AccountManagement", "Triage")
  /\ heap[result.context].user_id = <<"ID-", IdHi>>

\* the agent a message is expected to be fed to
ExpectedOwner == IF lastGood = "" THEN "Triage" ELSE lastGood

\* C3: every message is fed to the owner stored in the session, which is Triage until
\* a run has completed and afterwards the last agent of the most recent run that
\* completed without error; after such a run the session's owner is the run's last
\* agent and the session's item log is the run's input followed by its new items.
C3_FedToOwner ==
  /\ Running =>
       /\ result.starting_agent = ExpectedOwner
       /\ current_agent = ExpectedOwner
       /\ LastItem(result.input).role = "user"
  /\ (outcome = "ok" /\ pc \in {"update", "delete", "done"}) =>
       /\ user_session.current_agent = result.agent
       /\ lastGood = result.agent
       /\ user_session.input_items = result.input \o result.new_items
       /\ LastItem(result.new_items) = MessageItem(result.agent)

\* the second message was fed to FAQ, the owner the first run left, and its run
\* completed with Triage as last agent
C3_Witness ==
  /\ msgs = 2
  /\ outcome = "ok"
  /\ pc = "done"
  /\ result.starting_agent = "FAQ"
  /\ user_session.current_agent = "Triage"

\* this step is a call of faq_lookup_tool
IsFaqStep ==
  /\ pc = "stream"
  /\ Len(result'.new_items) = Len(result.new_items) + 1
  /\ LastItem(result'.new_items).content[1] = "faq_lookup_tool"

\* C4: no exception leaves faq_lookup_tool; whenever it does not succeed it returns
\* the apology string, and the session's pending-deletion list stays as it was.
C4_FaqToolNeverRaises ==
  /\ [](tool_ret.tool = "faq_lookup_tool" =>
          /\ ~tool_ret.raised
          /\ tool_ret.status # "ok" => tool_ret.value = Apology)
  /\ [][(IsFaqStep /\ tool_ret'.status # "ok") =>
          user_session'.delete_threads = user_session.delete_threads]_vars

\* the tool has failed because the session registers no thread id (on_chat_start
\* ended at create_thread, before registering one)
C4_Witness ==
  /\ tool_ret.tool = "faq_lookup_tool"
  /\ tool_ret.status = "error"
  /\ tool_ret.value = Apology
  /\ ThreadOf(NewThreads(user_session)) = 0

AllUnset(c) ==
  /\ c.user_name = None
  /\ c.image_path = None
  /\ c.birth_date = None
  /\ c.user_id = None

ContextFields == {"user_name", "image_path", "birth_date", "user_id"}

C8_DeltasForwarded ==
  /\ []((pc = "stream" \/ outcome = "ok") =>
          msg_final.content = IF deltas = <<>> THEN <<>> ELSE Prefix(last_agent) \o deltas)
  /\ [][(pc = "stream" /\ pc' = "stream" /\ deltas' = deltas) => msg_final' = msg_final]_vars

\* a completed run whose two deltas arrived around a handoff and a tool call
C8_Witness ==
  /\ outcome = "ok"
  /\ pc = "done"
  /\ Len(deltas) = 2
  /\ Len(result.new_items) = 3

\* the owner of the conversation: the running agent of a run in progress, and the
\* agent stored in the session otherwise
Owner == IF Running THEN result.agent ELSE user_session.current_agent

\* C9, as the specification states it: once the user has asked the same question
\* three times, ownership of the conversation eventually becomes Live.
C9_Original ==
  \A q \in Questions : (asked[q] >= RepeatLimit) ~> (Started /\ Owner = "Live")

\* C9, amended: nothing in the code counts repeated questions or forces a transfer;
\* ownership becomes Live only when the model running as Triage takes Triage's handoff
\* to Live, and whenever the session's owner is Live that handoff is in the item log.
C9_LiveOnlyByTriageHandoff ==
  /\ []((Started /\ user_session.current_agent = "Live") =>
          \E i \in 1..Len(user_session.input_items) :
            user_session.input_items[i] = HandoffItem("Triage", "Live"))
  /\ [][(Running /\ result'.agent = "Live" /\ result.agent # "Live") =>
          (IsHandoffStep /\ result.agent = "Triage")]_vars

\* the same question was asked three times and the model did hand over to Live
C9_Witness ==
  /\ \E q \in Questions : asked[q] = RepeatLimit
  /\ pc = "done"
  /\ user_session.current_agent = "Live"

\* C10: update_user_name never finds user_id unset: whenever AccountManagement runs
\* or owns the session, the context's user_id is set, and no call of the tool raises.
C10_UserIdIsSet ==
  /\ tool_ret.tool = "update_user_name" =>
       (~tool_ret.raised /\ heap[result.context].user_id # None)
  /\ (Running /\ result.agent = "AccountManagement") =>
       heap[result.context].user_id # None
  /\ (Started /\ user_session.current_agent = "AccountManagement") =>
       heap[user_session.context].user_id # None

\* the tool is called in the message after the one whose handoff stamped the id
C10_Witness ==
  /\ msgs = 2
  /\ result.starting_agent = "AccountManagement"
  /\ tool_ret.tool = "update_user_name"
  /\ tool_ret.status = "ok"

\* the thread ids registered in the session when main has ended
Registered == Range(NewThreads(user_session))

\* C11: once the final message is updated, main reaches its end for a run that
\* completed and for a run that raised alike, and by then deletion has been attempted
\* for every entry of the pending-deletion list, in order; an attempt, failed or not,
\* moves the loop to the next entry; after the last attempt the replacement step can
\* run, and unless create_thread raised no registered thread id is a scheduled one.
C11_CleanupIsBestEffort ==
  /\ (pc = "update") ~> (pc = "done")
  /\ [](pc = "done" => (/\ attempts = user_session.delete_threads
                        /\ main_raised \/ Registered \cap Range(delete_threads) = {}))
  /\ [][(pc = "delete" /\ attempts' # attempts) =>
          (/\ attempts' = Append(attempts, delete_threads[idx])
           /\ idx' = idx + 1
           /\ pc' = "delete")]_vars
  /\ []((pc = "delete" /\ idx > Len(delete_threads)) => ENABLED ReplaceThreads(TRUE))

\* a failed run: the deletion of the scheduled thread failed (the thread is still
\* there), and the registered thread was replaced all the same
C11_Witness ==
  /\ pc = "done"
  /\ outcome = "failed"
  /\ Len(delete_threads) > 0
  /\ delete_threads[1] \in threads.alive
  /\ ~main_raised
  /\ Registered # {}
  /\ Registered \cap Range(delete_threads) = {}

\* C12: when the processing of a message begins, every thread id registered in the
\* session is a remote thread that has not been deleted; and between two messages no
\* registered thread id is one that the last message scheduled for deletion.
C12_RegisteredThreadIsLive ==
  /\ pc = "run" => Registered \subseteq threads.alive
  /\ (Started /\ handler = "idle") =>
       Registered \cap Range(user_session.delete_threads) = {}

\* the item log of the session as it was when the message being processed arrived:
\* the list the run was fed, without the user item appended at line 272
LogBefore == SubSeq(result.input, 1, Len(result.input) - 1)

\* C13: once the run has raised, the session's item log is what it was before the
\* message arrived, so the failed message's user item is not in it.
C13_FailedRunLeavesLog ==
  outcome = "failed" => user_session.input_items = LogBefore

\* no element occurs twice in the sequence
NoRepeat(seq) == \A i, j \in 1..Len(seq) : i # j => seq[i] # seq[j]

\* C14: the session's pending-deletion list never holds a thread id twice, and the
\* deletion loop of one message never attempts the same thread id twice.
C14_ScheduledOnce ==
  /\ NoRepeat(user_session.delete_threads)
  /\ NoRepeat(attempts)

\* the first elements of the final message's content, where the prefix is written
PrefixOf(m) == SubSeq(m.content, 1, Len(Prefix("")))

\* C15: the placeholder is removed at most once while a message is processed; it is
\* removed in the step of the first text delta and in no other, and after that step
\* the placeholder is gone and the final message is sent and holds the prefix of the
\* agent announced last (the running agent) followed by that delta; once text has
\* begun, no step of the stream (agent updates included) changes the placeholder or
\* the prefix of the final message.
C15_PlaceholderAndPrefix ==
  /\ [](msg.removes <= 1)
  /\ [][msg'.removes > msg.removes =>
          (/\ pc = "stream"
           /\ deltas = <<>>
           /\ Len(deltas') = 1
           /\ ~msg'.sent
           /\ msg_final'.sent
           /\ msg_final'.content = Prefix(Name(result.agent)) \o deltas')]_vars
  /\ [][(pc = "stream" /\ deltas = <<>> /\ deltas' # <<>>) =>
          msg'.removes = msg.removes + 1]_vars
  /\ [][(pc = "stream" /\ pc' = "stream" /\ deltas # <<>>) =>
          (/\ msg' = msg
           /\ msg_final'.sent
           /\ PrefixOf(msg_final') = PrefixOf(msg_final))]_vars

\* text began while Triage was running, and the run has since been handed to another
\* agent: the final message still carries Triage's prefix
C15_Witness ==
  /\ pc = "stream"
  /\ deltas # <<>>
  /\ PrefixOf(msg_final) = Prefix(Name("Triage"))
  /\ result.agent # "Triage"
  /\ ~msg.sent
  /\ msg.removes = 1

\* C16: when main has reached its end, the placeholder has been removed from the UI
\* and the final message has been sent, whatever the outcome of the run and whether
\* or not a text delta arrived.
C16_PlaceholderGoneAtEnd ==
  pc = "done" => (/\ ~msg.sent
                  /\ msg.removes > 0
                  /\ msg_final.sent)

====
